---- MODULE Spec2Model ----
(***************************************************************************)
(* Model of the generate path of src/handler.py (Tenexa RunPod handler):   *)
(* handle_generate_mode and the functions it calls (wait_for_comfyui,      *)
(* save_image_from_base64, load_workflow, patch_workflow_image,            *)
(* queue_prompt, wait_for_completion, get_history).                        *)
(*                                                                         *)
(* One process serves generate requests one after the other.  The engine   *)
(* (ComfyUI), its websocket stream, the template file on disk and the      *)
(* request are the environment: every answer they can give is a            *)
(* nondeterministic choice from a small set.                               *)
(*                                                                         *)
(* Time: the code only ever uses differences time.time() - start, so the   *)
(* model keeps `clock`, the wall-clock time elapsed since the `start` of   *)
(* the wait loop that is running.  Time passes while the code blocks       *)
(* (time.sleep, ws.recv).                                                  *)
(***************************************************************************)
EXTENDS Integers, Sequences, FiniteSets, TLC

\* ---------------------------------------------------------------- bounds
\* number of generate requests served by the process
MaxRuns == 2
\* number of frames the stream delivers to one wait_for_completion call
MaxFrames == 2

\* ------------------------------------------------------ program constants
\* COMFY_READY_TIMEOUT (environment-configurable, default 120 s)
COMFY_READY_TIMEOUT == 1
\* COMFY_EXEC_TIMEOUT (environment-configurable, default 600 s)
COMFY_EXEC_TIMEOUT == 2
\* ws.settimeout(5): the per-read timeout of the stream
RECV_TIMEOUT == 5
\* time.sleep(1) between two readiness probes
READY_SLEEP == 1
\* defaults of the generation parameters
DEFAULT_CFG == 2
DEFAULT_STEPS == 10
DEFAULT_FRAMES == 81
\* int(time.time()), the default seed: some integer no request supplies
TIME_SEED == 1000

\* ------------------------------------------------------------- the request
\* An optional request field: << >> when the key is absent, <<v>> when present.
Given(opt) == Len(opt) > 0

\* job_input.get(key, default)
Get(opt, default) == IF Given(opt) THEN opt[1] ELSE default

\* image fields: "none" (key absent or empty string), "valid" (decodable
\* base64), "invalid" (base64.b64decode raises)
ImageValues == {"none", "valid", "invalid"}

WorkflowTypes == {"wan22_i2v", "flf2v"}

\* The generation parameters of a request: none given, or all given.  The
\* handler never reads width and height.
ParamSets ==
    { [seed |-> << >>, cfg |-> << >>, steps |-> << >>, frames |-> << >>,
       width |-> << >>, height |-> << >>],
      [seed |-> <<42>>, cfg |-> <<7>>, steps |-> <<4>>, frames |-> <<16>>,
       width |-> <<500>>, height |-> <<500>>] }

\* The single-image variant never reads end_image_base64: its requests are
\* taken without one.
Requests ==
    { [image_base64 |-> i, workflow |-> "wan22_i2v", end_image_base64 |-> "none",
       params |-> p] : i \in ImageValues, p \in ParamSets }
    \cup
    { [image_base64 |-> i, workflow |-> "flf2v", end_image_base64 |-> e,
       params |-> p] : i \in ImageValues, e \in ImageValues, p \in ParamSets }

NoRequest ==
    [image_base64 |-> "none", workflow |-> "wan22_i2v", end_image_base64 |-> "none",
     params |-> [seed |-> << >>, cfg |-> << >>, steps |-> << >>, frames |-> << >>,
                 width |-> << >>, height |-> << >>]]

\* ----------------------------------------------------------- the template
\* Node ids the binder writes to (lines 560-582) and the one it reads (623).
BindNodes == {"244", "617", "541", "220", "540"}
AllNodes == BindNodes \cup {"131"}

\* A template file with every node the handler addresses.
FullTemplate ==
    "244" :> [class_type |-> "LoadImage", inputs |-> [image |-> "example.png"]] @@
    "617" :> [class_type |-> "LoadImage", inputs |-> [image |-> "example_end.png"]] @@
    "541" :> [class_type |-> "WanVideoImageToVideoEncode",
              inputs |-> [num_frames |-> 33, width |-> 480, height |-> 832]] @@
    "220" :> [class_type |-> "WanVideoSampler",
              inputs |-> [seed |-> 0, cfg |-> 1, steps |-> 20]] @@
    "540" :> [class_type |-> "WanVideoSampler",
              inputs |-> [seed |-> 0, cfg |-> 1, steps |-> 20]] @@
    "131" :> [class_type |-> "VHS_VideoCombine", inputs |-> [frame_rate |-> 24]]

Restrict(f, S) == [n \in S |-> f[n]]

\* What json.loads can return for the template file: the full template, the
\* template with one addressed node missing, and the template with a node
\* record that has no "inputs" key.
Templates ==
    {FullTemplate}
    \cup { Restrict(FullTemplate, AllNodes \ {n}) : n \in BindNodes }
    \cup { [FullTemplate EXCEPT ![n] = [class_type |-> "Bare"]] : n \in {"244", "541"} }

NoWorkflow == Restrict(FullTemplate, {})

\* ------------------------------------------------------------- the binder
\* "inputs" in workflow[node_id]
HasInputs(workflow, node_id) == "inputs" \in DOMAIN workflow[node_id]

\* workflow[node_id]["inputs"][field] = value
SetInput(workflow, node_id, field, value) ==
    [workflow EXCEPT ![node_id].inputs[field] = value]

\* patch_workflow_image: writes the image name when the node exists and has
\* inputs, and otherwise only logs a warning.
PatchWorkflowImage(workflow, image_filename, node_id) ==
    IF node_id \in DOMAIN workflow /\ HasInputs(workflow, node_id)
    THEN SetInput(workflow, node_id, "image", image_filename)
    ELSE workflow

\* The image patches of handle_generate_mode: node 244 always, node 617 in
\* the flf2v variant.
PatchImages(workflow, workflow_type) ==
    LET w1 == PatchWorkflowImage(workflow, "tenexa_input.png", "244")
    IN  IF workflow_type = "flf2v"
        THEN PatchWorkflowImage(w1, "tenexa_end.png", "617")
        ELSE w1

\* seed, cfg, steps, num_frames read from the request with their defaults
ReadParameters(p) ==
    [seed       |-> Get(p.seed, TIME_SEED),
     cfg        |-> Get(p.cfg, DEFAULT_CFG),
     steps      |-> Get(p.steps, DEFAULT_STEPS),
     num_frames |-> Get(p.frames, DEFAULT_FRAMES)]

\* The three guarded blocks that write the parameters.  Each takes and gives
\* [wf, raised]: raised is the KeyError of workflow[n]["inputs"] on a node
\* without inputs, after which nothing more is written.
ApplyEncode(s, v) ==
    IF s.raised \/ "541" \notin DOMAIN s.wf THEN s
    ELSE IF ~HasInputs(s.wf, "541") THEN [s EXCEPT !.raised = TRUE]
    ELSE [s EXCEPT !.wf = SetInput(s.wf, "541", "num_frames", v.num_frames)]

ApplyFirstSampler(s, v) ==
    IF s.raised \/ "220" \notin DOMAIN s.wf THEN s
    ELSE IF ~HasInputs(s.wf, "220") THEN [s EXCEPT !.raised = TRUE]
    ELSE [s EXCEPT !.wf =
            SetInput(SetInput(SetInput(s.wf, "220", "seed", v.seed),
                              "220", "cfg", v.cfg),
                     "220", "steps", v.steps)]

ApplySecondSampler(s, v) ==
    IF s.raised \/ "540" \notin DOMAIN s.wf THEN s
    ELSE IF ~HasInputs(s.wf, "540") THEN [s EXCEPT !.raised = TRUE]
    ELSE [s EXCEPT !.wf =
            SetInput(SetInput(s.wf, "540", "seed", v.seed), "540", "cfg", v.cfg)]

ApplyParameters(workflow, v) ==
    ApplySecondSampler(
        ApplyFirstSampler(
            ApplyEncode([wf |-> workflow, raised |-> FALSE], v), v), v)

\* -------------------------------------------------------------- the stream
\* Prompt ids: "p1" is the one the engine assigns to this process's job,
\* "p2" belongs to some other job, "none" stands for a missing id.
FramePromptIds == {"p1", "p2"}

\* What ws.recv() can deliver.  form: "binary" (bytes), "text" (a text frame
\* that is not JSON), "array" (JSON that is not an object), "object".  For an
\* object, type is data["type"], node is data["data"]["node"] ("null" when
\* it is null or absent) and prompt_id is data["data"]["prompt_id"].
Frame(form, type, node, prompt_id) ==
    [form |-> form, type |-> type, node |-> node, prompt_id |-> prompt_id]

Frames ==
    { Frame("binary", "-", "-", "-"),
      Frame("text", "-", "-", "-"),
      Frame("array", "-", "-", "-") }
    \cup { Frame("object", "executing", "null", p) : p \in FramePromptIds }
    \cup { Frame("object", "executing", "5", "p1") }
    \cup { Frame("object", "execution_error", "-", p) : p \in FramePromptIds }
    \cup { Frame("object", "progress", "-", "p2") }

\* Seconds a ws.recv() call can take before it returns a frame or fails:
\* at once, after a while, or at the very end of the per-read timeout.
Delays == {0, 2, RECV_TIMEOUT}

\* ProcessFrame with the execution_error branch lost: the frame is skipped.
ProcessFrameSwallowsError(msg, prompt_id) ==
    IF msg.form = "object" /\ msg.type = "executing" /\ msg.node = "null"
       /\ msg.prompt_id = prompt_id
    THEN "complete"
    ELSE IF msg.form = "array" THEN "raise_other"
    ELSE "continue"

\* ProcessFrame without the comparison of the frame's prompt_id.
ProcessFrameAnyJobCompletes(msg, prompt_id) ==
    IF msg.form \in {"binary", "text"} THEN "continue"
    ELSE IF msg.form = "array" THEN "raise_other"
    ELSE IF msg.type = "executing" /\ msg.node = "null" THEN "complete"
    ELSE IF msg.type = "execution_error" THEN "raise_error"
    ELSE "continue"

\* ProcessFrame without the isinstance test of line 411: json.loads of the
\* bytes is caught, data.get of what it gave is not.
ProcessFrameBinaryRaises(msg, prompt_id) ==
    IF msg.form = "binary" THEN "raise_other"
    ELSE IF msg.form = "text" THEN "continue"
    ELSE IF msg.form = "array" THEN "raise_other"
    ELSE IF msg.type = "executing" /\ msg.node = "null" /\ msg.prompt_id = prompt_id
         THEN "complete"
    ELSE IF msg.type = "execution_error" THEN "raise_error"
    ELSE "continue"

\* One pass of the loop body of wait_for_completion after ws.recv() returned
\* msg: "continue" (back to the top of the loop), "complete" (call
\* get_history and return), "raise_error" (RuntimeError, the engine's
\* execution error), "raise_other" (AttributeError of data.get on a list).
ProcessFrame(msg, prompt_id) ==
    IF msg.form = "binary" THEN "continue"
    ELSE IF msg.form = "text" THEN "continue"
    ELSE IF msg.form = "array" THEN "raise_other"
    ELSE IF msg.type = "executing" /\ msg.node = "null" /\ msg.prompt_id = prompt_id
         THEN "complete"
    ELSE IF msg.type = "execution_error" THEN "raise_error"
    ELSE "continue"

\* A client id made once per process instead of once per run.
Uuid4Fixed(n) == 1

\* uuid.uuid4(): a value no earlier call of this process returned; n is the
\* number of earlier calls.
Uuid4(n) == n + 1

\* ------------------------------------------------------- output resolver
\* Longest "videos"/"gifs" list of an output node in the histories explored.
MaxEntries == 2

\* File names under COMFY_OUTPUT_DIR: what an entry of the history may name
\* and what the directory may hold ("other.mp4": the file of another job).
EntryFiles == {"a.mp4", "b.gif", "c.webm"}
OutputFiles == EntryFiles \cup {"other.mp4"}

\* full_path.endswith(('.mp4', '.gif')) and file.endswith('.mp4')
EndsWithMp4OrGif(path) == path \in {"a.mp4", "b.gif", "other.mp4"}
EndsWithMp4(path) == path \in {"a.mp4", "other.mp4"}

\* os.path.getmtime: the file of the other job is the newer one.
Mtime(path) == IF path = "other.mp4" THEN 2 ELSE 1

\* The sequences over S of length n, and of length at most n.
SeqOfLen(S, n) == [1..n -> S]
SeqUpTo(S, n) == UNION {SeqOfLen(S, k) : k \in 0..n}

\* An output node of a history record: the file names of its "videos" and
\* of its "gifs" list.
NodeOutputs ==
    {[videos |-> v, gifs |-> g] :
        v \in SeqUpTo(EntryFiles, MaxEntries), g \in SeqUpTo(EntryFiles, MaxEntries)}

SmallNodeOutputs == {n \in NodeOutputs : Len(n.videos) + Len(n.gifs) <= MaxEntries}

\* History records: "outputs" is the list of the output nodes in the order
\* outputs.items() yields them.
NoHistory == [outputs |-> << >>]
Histories ==
    {NoHistory} \cup {[outputs |-> <<n>>] : n \in SmallNodeOutputs}
               \cup {[outputs |-> <<n, m>>] : n, m \in SmallNodeOutputs}

\* The records and directories a generate run is explored with.
RunHistories ==
    {NoHistory, [outputs |-> <<[videos |-> << >>, gifs |-> <<"a.mp4">>]>>]}
RunOutputDirs == {{}, {"a.mp4"}, {"other.mp4"}}

\* Lines 446-447: `for key in ["videos", "gifs"]` over one node.
NodeEntries(node_outputs) == node_outputs.videos \o node_outputs.gifs

\* Lines 443-447: the entries of the record in the order the loops visit them.
RECURSIVE VisitOrder(_)
VisitOrder(outputs) ==
    IF outputs = << >> THEN << >>
    ELSE NodeEntries(Head(outputs)) \o VisitOrder(Tail(outputs))

\* Line 464 without its test of the file name's ending.
AcceptsAnyExisting(full_path, dir) == full_path \in dir

\* Line 464: os.path.exists(full_path) and full_path.endswith(('.mp4', '.gif'))
Accepts(full_path, dir) == full_path \in dir /\ EndsWithMp4OrGif(full_path)

\* Lines 443-465: the first entry visited that line 464 accepts.
RECURSIVE HistoryScan(_, _)
HistoryScan(entries, dir) ==
    IF entries = << >> THEN << >>
    ELSE IF Accepts(Head(entries), dir) THEN <<Head(entries)>>
    ELSE HistoryScan(Tail(entries), dir)

\* Lines 468-483: the newest .mp4 under COMFY_OUTPUT_DIR.
DirectoryScan(dir) ==
    LET mp4_files == {f \in dir : EndsWithMp4(f)}
    IN  IF mp4_files = {} THEN << >>
        ELSE <<CHOOSE f \in mp4_files : \A g \in mp4_files : Mtime(g) <= Mtime(f)>>

\* find_output_video: << >> is None.
FindOutputVideo(history, dir) ==
    LET found == HistoryScan(VisitOrder(history.outputs), dir)
    IN  IF found # << >> THEN found ELSE DirectoryScan(dir)

\* `if not video_path` (line 609) always false.
NoVideoNeverTaken(video_path) == FALSE

\* `if not video_path` (line 609)
NoVideo(video_path) == video_path = << >>

\* `if not prompt_id` (line 591) always false.
NoPromptIdNeverTaken(prompt_id) == FALSE

\* `if not prompt_id` (line 591)
NoPromptId(prompt_id) == prompt_id = "none"

\* The frame is the one event that ends the job with this id: its
\* completion or its execution error.
TerminalEventOf(msg, prompt_id) ==
    /\ msg.form = "object"
    /\ msg.prompt_id = prompt_id
    /\ \/ msg.type = "executing" /\ msg.node = "null"
       \/ msg.type = "execution_error"

\* `if not comfy_status.get("ready")` (line 516) always false.
NotReadyNeverTaken(comfy_status) == FALSE

\* `if not comfy_status.get("ready")` (line 516)
NotReady(comfy_status) == comfy_status # "ready"

\* ---------------------------------------------------------------- state
VARIABLES
    comfy_status,  \* what wait_for_comfyui returned: "none", "ready", "not_ready"
    staged,        \* files save_image_from_base64 wrote in this run
    outputDir,     \* files in COMFY_OUTPUT_DIR when find_output_video ran
    video_path,    \* the local video_path: << >> (None) or <<path>>
    emittedEarly,  \* the engine sent the terminal event of the run's job
                   \* before the run's WebSocket was connected
    pc,            \* position of the process in handle_generate_mode
    run,           \* number of generate requests started so far
    job_input,     \* the request of the current run
    clock,         \* time.time() - start of the wait loop that is running
    inputDir,      \* files in COMFY_INPUT_DIR
    workflow,      \* the dict load_workflow returned, as it is now
    template,      \* that dict as it was when load_workflow returned it
    loaded,        \* load_workflow has returned in this run
    values,        \* the locals seed, cfg, steps, num_frames
    uuidCalls,     \* number of uuid.uuid4() calls of the process
    client_id,     \* the local client_id (0 before it is assigned)
    posts,         \* payloads POSTed to /prompt in this run, in order
    prompt_id,     \* the local prompt_id ("none" before the engine gave one)
    wsState,       \* "none", "open" or "closed": the run's WebSocket
    wsUrls,        \* clientId values of the ws:// URLs connected in this run
    log,           \* frames ws.recv() returned to wait_for_completion
    monitor,       \* state of wait_for_completion: "none", "waiting" (in the
                   \* read loop), "querying" (in get_history), and how it
                   \* ended: "Completed" (returned the history), "Faulted"
                   \* (RuntimeError of execution_error), "TimedOut"
                   \* (TimeoutError), "ReadFailed" (ws.recv raised),
                   \* "FrameError" (handling a frame raised), "QueryFailed"
                   \* (get_history raised)
    historyCalls,  \* number of GET /history requests of this run
    history,       \* what wait_for_completion returned
    result,        \* the dict handle_generate_mode returns
    sessions       \* client ids POSTed by the runs of this process, in order

vars == <<pc, run, job_input, clock, inputDir, workflow, template, loaded, values,
          uuidCalls, client_id, posts, prompt_id, wsState, wsUrls, log, monitor,
          historyCalls, history, result, sessions, comfy_status, staged,
          outputDir, video_path, emittedEarly>>

NoValues == [seed |-> 0, cfg |-> 0, steps |-> 0, num_frames |-> 0]

\* The data of a frame where there is no frame.
NoFrame == Frame("none", "none", "none", "none")

\* An error_message: its wording, the engine data json.dumps wrote into it
\* and the number of seconds its f-string printed (0: none).
Message(text, payload, seconds) ==
    [text |-> text, payload |-> payload, seconds |-> seconds]

NoMessage == Message("none", NoFrame, 0)

\* handle_generate_mode has not returned: no dict, no keys.
NoResult ==
    [status |-> "none", error_code |-> "none", error_message |-> NoMessage,
     video |-> "none", keys |-> {}]

\* The keys every failure dict of handler.py is written with.
FailureKeys == {"status", "error_code", "error_message"}

\* The key a failure dict holds besides FailureKeys.
ExtraKey(code) ==
    CASE code = "COMFY_NOT_READY" -> {"logs_tail"}
      [] code = "QUEUE_FAILED" -> {"response"}
      [] code = "NO_OUTPUT" -> {"history"}
      [] code = "HANDLER_ERROR" -> {"handler_version"}
      [] OTHER -> {}

\* The literal error_message of the failure dicts that are not built from
\* an exception.
FixedMessage(code) ==
    CASE code = "COMFY_NOT_READY" ->
             Message("ComfyUI failed to start within", NoFrame, COMFY_READY_TIMEOUT)
      [] code = "NO_IMAGE" ->
             Message("Missing required parameter: image_base64", NoFrame, 0)
      [] code = "NO_END_IMAGE" ->
             Message("FLF2V workflow requires end_image_base64", NoFrame, 0)
      [] code = "QUEUE_FAILED" ->
             Message("ComfyUI did not return prompt_id", NoFrame, 0)
      [] code = "NO_OUTPUT" ->
             Message("No video file generated", NoFrame, 0)
      [] OTHER -> Message("none", NoFrame, 0)

\* A failure dict written without its error_message.
FailedWithoutMessage(code) ==
    [status |-> "failed", error_code |-> code, error_message |-> NoMessage,
     video |-> "none", keys |-> {"status", "error_code"} \cup ExtraKey(code)]

\* The failure dicts handle_generate_mode returns directly.
Failed(code) ==
    [status |-> "failed", error_code |-> code,
     error_message |-> FixedMessage(code), video |-> "none",
     keys |-> FailureKeys \cup ExtraKey(code)]

\* An exception: its class and what str(e) gives.
Exception(type, text, payload, seconds) ==
    [type |-> type, message |-> Message(text, payload, seconds)]

\* Line 402: raise TimeoutError(f"Execution timeout after {timeout}s")
ExecutionTimeout(elapsed, timeout) ==
    Exception("TimeoutError", "Execution timeout after", NoFrame, timeout)

\* Line 433: raise RuntimeError(f"ComfyUI execution error: {json.dumps(error_data)}")
ExecutionError(msg) ==
    Exception("RuntimeError", "ComfyUI execution error", msg, 0)

\* What the other callees raise.
DecodeError == Exception("binascii.Error", "Incorrect padding", NoFrame, 0)
WorkflowError == Exception("FileNotFoundError", "Workflow not found", NoFrame, 0)
BindError == Exception("KeyError", "inputs", NoFrame, 0)
UrlError == Exception("URLError", "urlopen error", NoFrame, 0)
SocketError == Exception("WebSocketException", "socket error", NoFrame, 0)
FrameTypeError == Exception("AttributeError", "no attribute get", NoFrame, 0)
OpenError == Exception("FileNotFoundError", "No such file or directory", NoFrame, 0)
DiskError == Exception("FileNotFoundError", "No such file or directory", NoFrame, 0)

\* Lines 637-651: the two except clauses of handle_generate_mode.
Caught(exc) ==
    [status |-> "failed",
     error_code |-> IF exc.type = "TimeoutError" THEN "TIMEOUT"
                    ELSE "GENERATION_ERROR",
     error_message |-> exc.message, video |-> "none",
     keys |-> FailureKeys \cup {"logs_tail"}]

\* Lines 678-685: the except clause of handler().
HandlerCaught(exc) ==
    [status |-> "failed", error_code |-> "HANDLER_ERROR",
     error_message |-> exc.message, video |-> "none",
     keys |-> FailureKeys \cup ExtraKey("HANDLER_ERROR")]

\* Lines 615-626: the dict of a finished generation.
Completed(video) ==
    [status |-> "completed", error_code |-> "none", error_message |-> NoMessage,
     video |-> video,
     keys |-> {"status", "video_base64", "seed", "fps", "frames", "duration_sec",
               "metadata", "handler_version"}]

\* The locals of a run before handle_generate_mode has assigned them.
FreshRun ==
    /\ workflow = NoWorkflow
    /\ template = NoWorkflow
    /\ loaded = FALSE
    /\ values = NoValues
    /\ client_id = 0
    /\ posts = << >>
    /\ prompt_id = "none"
    /\ wsState = "none"
    /\ wsUrls = << >>
    /\ log = << >>
    /\ monitor = "none"
    /\ historyCalls = 0
    /\ history = NoHistory
    /\ result = NoResult
    /\ comfy_status = "none"
    /\ staged = {}
    /\ outputDir = {}
    /\ video_path = << >>
    /\ emittedEarly = FALSE

Init ==
    /\ pc = "idle"
    /\ run = 0
    /\ job_input = NoRequest
    /\ clock = 0
    /\ inputDir = {}
    /\ uuidCalls = 0
    /\ sessions = << >>
    /\ FreshRun

\* -------------------------------------------------------------- actions
\* A return of handle_generate_mode with a failure dict.
Fail(code) ==
    /\ result' = Failed(code)
    /\ pc' = "done"

\* An except clause that goes back to the submission.
RaiseAndResubmit(exc) ==
    /\ result' = Caught(exc)
    /\ pc' = "submit"

\* An exception raised inside the try block of handle_generate_mode.
Raise(exc) ==
    /\ result' = Caught(exc)
    /\ pc' = "done"

\* handler() is called with a generate request.
HandlerCall(req) ==
    /\ pc = "idle"
    /\ run < MaxRuns
    /\ run' = run + 1
    /\ job_input' = req
    /\ clock' = 0
    /\ pc' = "ready"
    /\ UNCHANGED <<inputDir, workflow, template, loaded, values, uuidCalls, client_id,
                   posts, prompt_id, wsState, wsUrls, log, monitor, historyCalls,
                   history, result, sessions,
                   comfy_status, staged, outputDir, video_path, emittedEarly>>

\* One pass of the loop of wait_for_comfyui and, once it has returned, the
\* check of its answer at line 516.
WaitForComfyui(probe) ==
    /\ pc = "ready"
    /\ IF clock > COMFY_READY_TIMEOUT
       THEN comfy_status' = "not_ready" /\ UNCHANGED clock
       ELSE IF probe
       THEN comfy_status' = "ready" /\ UNCHANGED clock
       ELSE clock' = clock + READY_SLEEP /\ UNCHANGED comfy_status
    /\ IF comfy_status' = "none"
       THEN UNCHANGED <<pc, result>>
       ELSE IF NotReady(comfy_status')
       THEN Fail("COMFY_NOT_READY")
       ELSE pc' = "input" /\ UNCHANGED result
    /\ UNCHANGED <<run, job_input, inputDir, workflow, template, loaded, values,
                   uuidCalls, client_id, posts, prompt_id, wsState, wsUrls, log,
                   monitor, historyCalls, history, sessions, staged, outputDir,
                   video_path, emittedEarly>>

\* save_image_from_base64: "saved" or "raise" (b64decode fails).
SaveImageOutcome(image_b64) ==
    IF image_b64 = "valid" THEN "saved" ELSE "raise"

\* Lines 526-536: the primary image is checked, then staged.
GetInputImage ==
    /\ pc = "input"
    /\ IF job_input.image_base64 = "none"
       THEN Fail("NO_IMAGE") /\ UNCHANGED <<inputDir, staged>>
       ELSE IF SaveImageOutcome(job_input.image_base64) = "raise"
       THEN Raise(DecodeError) /\ UNCHANGED <<inputDir, staged>>
       ELSE /\ inputDir' = inputDir \cup {"tenexa_input.png"}
            /\ staged' = staged \cup {"tenexa_input.png"}
            /\ pc' = "workflow_type"
            /\ UNCHANGED result
    /\ UNCHANGED <<run, job_input, clock, workflow, template, loaded, values,
                   uuidCalls, client_id, posts, prompt_id, wsState, wsUrls, log,
                   monitor, historyCalls, history, sessions, comfy_status,
                   outputDir, video_path, emittedEarly>>

\* The flf2v branch without its check of the end image.
EndImageCheckSkipped(end_image_b64) == FALSE

\* `if not end_image_b64` of the flf2v branch
EndImageMissing(end_image_b64) == end_image_b64 = "none"

\* Lines 539-554: the variant is chosen; flf2v checks and stages the end image.
DetermineWorkflow ==
    /\ pc = "workflow_type"
    /\ IF job_input.workflow = "flf2v"
       THEN IF EndImageMissing(job_input.end_image_base64)
            THEN Fail("NO_END_IMAGE") /\ UNCHANGED <<inputDir, staged>>
            ELSE IF SaveImageOutcome(job_input.end_image_base64) = "raise"
            THEN Raise(DecodeError) /\ UNCHANGED <<inputDir, staged>>
            ELSE /\ inputDir' = inputDir \cup {"tenexa_end.png"}
                 /\ staged' = staged \cup {"tenexa_end.png"}
                 /\ pc' = "load"
                 /\ UNCHANGED result
       ELSE pc' = "load" /\ UNCHANGED <<inputDir, staged, result>>
    /\ UNCHANGED <<run, job_input, clock, workflow, template, loaded, values,
                   uuidCalls, client_id, posts, prompt_id, wsState, wsUrls, log,
                   monitor, historyCalls, history, sessions, comfy_status,
                   outputDir, video_path, emittedEarly>>

\* load_workflow returns the parsed template file.
LoadWorkflow(t) ==
    /\ pc = "load"
    /\ workflow' = t
    /\ template' = t
    /\ loaded' = TRUE
    /\ pc' = "bind"
    /\ UNCHANGED <<run, job_input, clock, inputDir, values, uuidCalls, client_id,
                   posts, prompt_id, wsState, wsUrls, log, monitor, historyCalls,
                   history, result, sessions,
                   comfy_status, staged, outputDir, video_path, emittedEarly>>

\* load_workflow raises (file missing, empty, or not JSON).
LoadWorkflowFails ==
    /\ pc = "load"
    /\ Raise(WorkflowError)
    /\ UNCHANGED <<run, job_input, clock, inputDir, workflow, template, loaded,
                   values, uuidCalls, client_id, posts, prompt_id, wsState, wsUrls,
                   log, monitor, historyCalls, history, sessions,
                   comfy_status, staged, outputDir, video_path, emittedEarly>>

\* Lines 559-582: the image patches and the parameter assignments, all made
\* in place on the dict load_workflow returned.
BindWorkflow ==
    /\ pc = "bind"
    /\ LET v == ReadParameters(job_input.params)
           s == ApplyParameters(PatchImages(workflow, job_input.workflow), v)
       IN  /\ values' = v
           /\ workflow' = s.wf
           /\ IF s.raised
              THEN Raise(BindError)
              ELSE pc' = "submit" /\ UNCHANGED result
    /\ UNCHANGED <<run, job_input, clock, inputDir, template, loaded, uuidCalls,
                   client_id, posts, prompt_id, wsState, wsUrls, log, monitor,
                   historyCalls, history, sessions,
                   comfy_status, staged, outputDir, video_path, emittedEarly>>

\* The client_id field of the payload queue_prompt builds (line 369).
PayloadClientId(cid) == cid

\* Lines 584-597: client_id is drawn, the graph is POSTed, the answer read.
\* answer: "raise" (urlopen fails), "none" (no prompt_id in the response),
\* or the prompt id the engine assigned.
QueuePrompt(answer) ==
    /\ pc = "submit"
    /\ LET cid == Uuid4(uuidCalls)
       IN  /\ client_id' = cid
           /\ posts' = Append(posts, [prompt |-> workflow,
                                      client_id |-> PayloadClientId(cid)])
           /\ sessions' = Append(sessions, PayloadClientId(cid))
    /\ uuidCalls' = uuidCalls + 1
    /\ IF answer = "raise"
       THEN Raise(UrlError) /\ UNCHANGED prompt_id
       ELSE /\ prompt_id' = answer
            /\ IF NoPromptId(answer)
               THEN Fail("QUEUE_FAILED")
               ELSE pc' = "connect" /\ UNCHANGED result
    /\ UNCHANGED <<run, job_input, clock, inputDir, workflow, template, loaded,
                   values, wsState, wsUrls, log, monitor, historyCalls, history,
                   comfy_status, staged, outputDir, video_path, emittedEarly>>

\* Between the answer to the POST (line 588) and ws.connect (line 601) the
\* engine, which has the job queued, runs it to its end and sends the job's
\* terminal event to the sockets connected with the client id: there is none.
EngineFinishesEarly ==
    /\ pc = "connect"
    /\ ~emittedEarly
    /\ emittedEarly' = TRUE
    /\ UNCHANGED <<pc, run, job_input, clock, inputDir, workflow, template, loaded,
                   values, uuidCalls, client_id, posts, prompt_id, wsState, wsUrls,
                   log, monitor, historyCalls, history, result, sessions,
                   comfy_status, staged, outputDir, video_path>>

\* The clientId query parameter of the ws:// URL (line 601).
UrlClientId(cid) == cid

\* Lines 599-603: the WebSocket is connected and wait_for_completion starts
\* (start = time.time()).
ConnectWebSocket(connected) ==
    /\ pc = "connect"
    /\ wsUrls' = Append(wsUrls, UrlClientId(client_id))
    /\ IF connected
       THEN /\ wsState' = "open"
            /\ monitor' = "waiting"
            /\ clock' = 0
            /\ pc' = "mon_check"
            /\ UNCHANGED result
       ELSE Raise(SocketError) /\ UNCHANGED <<wsState, monitor, clock>>
    /\ UNCHANGED <<run, job_input, inputDir, workflow, template, loaded, values,
                   uuidCalls, client_id, posts, prompt_id, log, historyCalls,
                   history, sessions,
                   comfy_status, staged, outputDir, video_path, emittedEarly>>

\* The deadline check with >= in the place of >.
DeadlinePassedAtBudget(elapsed, timeout) == elapsed >= timeout

\* `elapsed > timeout` at the top of the loop of wait_for_completion
DeadlinePassed(elapsed, timeout) == elapsed > timeout

\* Lines 399-402: the deadline check that opens every pass of the loop.
\* TimeoutError is caught at line 637.
CheckDeadline ==
    /\ pc = "mon_check"
    /\ IF DeadlinePassed(clock, COMFY_EXEC_TIMEOUT)
       THEN /\ monitor' = "TimedOut"
            /\ Raise(ExecutionTimeout(clock, COMFY_EXEC_TIMEOUT))
       ELSE pc' = "mon_recv" /\ UNCHANGED <<monitor, result>>
    /\ UNCHANGED <<run, job_input, clock, inputDir, workflow, template, loaded,
                   values, uuidCalls, client_id, posts, prompt_id, wsState, wsUrls,
                   log, historyCalls, history, sessions,
                   comfy_status, staged, outputDir, video_path, emittedEarly>>

\* Lines 404-408: ws.recv() ends by the per-read timeout; `continue`.
RecvTimeout ==
    /\ pc = "mon_recv"
    /\ clock' = clock + RECV_TIMEOUT
    /\ pc' = "mon_check"
    /\ UNCHANGED <<run, job_input, inputDir, workflow, template, loaded, values,
                   uuidCalls, client_id, posts, prompt_id, wsState, wsUrls, log,
                   monitor, historyCalls, history, result, sessions,
                   comfy_status, staged, outputDir, video_path, emittedEarly>>

\* ws.recv() raises something else than WebSocketTimeoutException (the
\* connection was closed or reset) after d seconds: nothing in
\* wait_for_completion catches it, line 644 does.
RecvFails(d) ==
    /\ pc = "mon_recv"
    /\ clock' = clock + d
    /\ monitor' = "ReadFailed"
    /\ Raise(SocketError)
    /\ UNCHANGED <<run, job_input, inputDir, workflow, template, loaded, values,
                   uuidCalls, client_id, posts, prompt_id, wsState, wsUrls, log,
                   historyCalls, history, sessions,
                   comfy_status, staged, outputDir, video_path, emittedEarly>>

\* Lines 404-433: ws.recv() returns msg after d seconds and the rest of the
\* loop body handles it.  The engine sends the terminal event of a job
\* once: it does not come again when it was sent before the connection.
RecvFrame(msg, d) ==
    /\ pc = "mon_recv"
    /\ Len(log) < MaxFrames
    /\ ~(emittedEarly /\ TerminalEventOf(msg, prompt_id))
    /\ clock' = clock + d
    /\ log' = Append(log, msg)
    /\ LET step == ProcessFrame(msg, prompt_id)
       IN  IF step = "continue"
           THEN pc' = "mon_check" /\ UNCHANGED <<monitor, result>>
           ELSE IF step = "complete"
           THEN pc' = "mon_history" /\ monitor' = "querying" /\ UNCHANGED result
           ELSE IF step = "raise_error"
           THEN monitor' = "Faulted" /\ Raise(ExecutionError(msg))
           ELSE monitor' = "FrameError" /\ Raise(FrameTypeError)
    /\ UNCHANGED <<run, job_input, inputDir, workflow, template, loaded, values,
                   uuidCalls, client_id, posts, prompt_id, wsState, wsUrls,
                   historyCalls, history, sessions,
                   comfy_status, staged, outputDir, video_path, emittedEarly>>

\* Line 428: get_history(prompt_id).get(prompt_id, {}).  The request fails
\* (urlopen raises) or it answers with a record (NoHistory: no entry for
\* the id, or an entry without outputs).
GetHistory(raised, record) ==
    /\ pc = "mon_history"
    /\ historyCalls' = historyCalls + 1
    /\ IF raised
       THEN monitor' = "QueryFailed" /\ Raise(UrlError) /\ UNCHANGED history
       ELSE /\ history' = record
            /\ monitor' = "Completed"
            /\ pc' = "resolve"
            /\ UNCHANGED result
    /\ UNCHANGED <<run, job_input, clock, inputDir, workflow, template, loaded,
                   values, uuidCalls, client_id, posts, prompt_id, wsState, wsUrls,
                   log, sessions,
                   comfy_status, staged, outputDir, video_path, emittedEarly>>

\* encode_video_to_base64 raises: open(None), or the file cannot be read.
EncodeRaises(path, readable) == path = << >> \/ ~readable

\* Lines 604-635: ws.close(), then the output is looked up in the history
\* and in dir, the content of COMFY_OUTPUT_DIR, and the file is encoded.
ResolveOutput(dir, readable) ==
    /\ pc = "resolve"
    /\ wsState' = "closed"
    /\ outputDir' = dir
    /\ video_path' = FindOutputVideo(history, dir)
    /\ IF NoVideo(video_path')
       THEN Fail("NO_OUTPUT")
       ELSE IF EncodeRaises(video_path', readable)
       THEN Raise(OpenError)
       ELSE result' = Completed(video_path'[1]) /\ pc' = "done"
    /\ UNCHANGED <<run, job_input, clock, inputDir, workflow, template, loaded,
                   values, uuidCalls, client_id, posts, prompt_id, wsUrls, log,
                   monitor, historyCalls, history, sessions, comfy_status,
                   staged, emittedEarly>>

\* What handle_test_mode and handle_diagnose_mode return.
Diagnostics(mode) ==
    [status |-> "completed", error_code |-> "none", error_message |-> NoMessage,
     video |-> "none",
     keys |-> IF mode = "test"
              THEN {"status", "ok", "comfyui_up", "paths", "disk_free_gb",
                    "volume_mounted", "handler_version"}
              ELSE {"status", "comfyui_reachable", "disk_usage", "volume_mounted",
                    "paths", "handler_version"}]

\* handler() is called with a test or a diagnose request: the mode's
\* function returns its dict, or get_disk_usage raises and line 678
\* catches it.
HandleDiagnostics(mode, disk_ok) ==
    /\ pc = "idle"
    /\ run < MaxRuns
    /\ run' = run + 1
    /\ result' = IF disk_ok THEN Diagnostics(mode) ELSE HandlerCaught(DiskError)
    /\ pc' = "done"
    /\ UNCHANGED <<job_input, clock, inputDir, workflow, template, loaded, values,
                   uuidCalls, client_id, posts, prompt_id, wsState, wsUrls, log,
                   monitor, historyCalls, history, sessions, comfy_status, staged,
                   outputDir, video_path, emittedEarly>>

\* handle_generate_mode has returned; its locals are gone.
Return ==
    /\ pc = "done"
    /\ pc' = "idle"
    /\ job_input' = NoRequest
    /\ workflow' = NoWorkflow
    /\ template' = NoWorkflow
    /\ loaded' = FALSE
    /\ values' = NoValues
    /\ client_id' = 0
    /\ posts' = << >>
    /\ prompt_id' = "none"
    /\ wsState' = "none"
    /\ wsUrls' = << >>
    /\ log' = << >>
    /\ monitor' = "none"
    /\ historyCalls' = 0
    /\ history' = NoHistory
    /\ result' = NoResult
    /\ comfy_status' = "none"
    /\ staged' = {}
    /\ outputDir' = {}
    /\ video_path' = << >>
    /\ emittedEarly' = FALSE
    /\ UNCHANGED <<run, clock, inputDir, uuidCalls, sessions>>

Next ==
    \/ \E req \in Requests : HandlerCall(req)
    \/ \E probe \in BOOLEAN : WaitForComfyui(probe)
    \/ GetInputImage
    \/ DetermineWorkflow
    \/ \E t \in Templates : LoadWorkflow(t)
    \/ LoadWorkflowFails
    \/ BindWorkflow
    \/ \E answer \in {"raise", "none", "p1"} : QueuePrompt(answer)
    \/ EngineFinishesEarly
    \/ \E connected \in BOOLEAN : ConnectWebSocket(connected)
    \/ CheckDeadline
    \/ RecvTimeout
    \/ \E d \in Delays : RecvFails(d)
    \/ \E msg \in Frames, d \in Delays : RecvFrame(msg, d)
    \/ \E raised \in BOOLEAN, record \in RunHistories : GetHistory(raised, record)
    \/ \E dir \in RunOutputDirs, readable \in BOOLEAN : ResolveOutput(dir, readable)
    \/ \E mode \in {"test", "diagnose"}, disk_ok \in BOOLEAN :
           HandleDiagnostics(mode, disk_ok)
    \/ Return

Spec == Init /\ [][Next]_vars

\* ------------------------------------------- the resolver on its own inputs
\* A run that has got through to line 606: the single-image request with the
\* default parameters, the full template, the completion frame read first,
\* and any history record of Histories returned by wait_for_completion.
ResolverRequest ==
    [image_base64 |-> "valid", workflow |-> "wan22_i2v",
     end_image_base64 |-> "none", params |-> NoRequest.params]

ResolverInit ==
    /\ pc = "resolve"
    /\ run = 1
    /\ job_input = ResolverRequest
    /\ clock = 0
    /\ comfy_status = "ready"
    /\ inputDir = {"tenexa_input.png"}
    /\ staged = {"tenexa_input.png"}
    /\ template = FullTemplate
    /\ loaded = TRUE
    /\ values = ReadParameters(ResolverRequest.params)
    /\ workflow = ApplyParameters(PatchImages(FullTemplate, "wan22_i2v"),
                                  ReadParameters(ResolverRequest.params)).wf
    /\ uuidCalls = 1
    /\ client_id = Uuid4(0)
    /\ posts = <<[prompt |-> workflow, client_id |-> PayloadClientId(Uuid4(0))]>>
    /\ sessions = <<PayloadClientId(Uuid4(0))>>
    /\ prompt_id = "p1"
    /\ wsState = "open"
    /\ wsUrls = <<UrlClientId(Uuid4(0))>>
    /\ log = <<Frame("object", "executing", "null", "p1")>>
    /\ monitor = "Completed"
    /\ historyCalls = 1
    /\ history \in Histories
    /\ outputDir = {}
    /\ video_path = << >>
    /\ emittedEarly = FALSE
    /\ result = NoResult

ResolverNext ==
    \E dir \in SUBSET OutputFiles, readable \in BOOLEAN : ResolveOutput(dir, readable)

ResolverSpec == ResolverInit /\ [][ResolverNext]_vars

\* ============================================================== properties
\* The frame is the completion event of the awaited job.
IsCompletion(msg) ==
    /\ msg.form = "object"
    /\ msg.type = "executing"
    /\ msg.node = "null"
    /\ msg.prompt_id = prompt_id

\* The frame is an execution_error event of the awaited job.
IsAwaitedError(msg) ==
    /\ msg.form = "object"
    /\ msg.type = "execution_error"
    /\ msg.prompt_id = prompt_id

\* The frame carries the id of another job.
IsForeign(msg) ==
    /\ msg.form = "object"
    /\ msg.prompt_id # prompt_id

\* wait_for_completion was entered and has returned or raised.
MonitorEnded ==
    monitor \in {"Completed", "Faulted", "TimedOut",
                 "ReadFailed", "FrameError", "QueryFailed"}

\* C1: wait_for_completion ends as Completed (it returns the history record)
\* if and only if it has read the completion frame of the awaited job (type
\* executing, node null, matching prompt_id), whatever was read before it.
C1_CompletedIffCompletionFrame ==
    /\ monitor = "Completed" => \E i \in DOMAIN log : IsCompletion(log[i])
    /\ MonitorEnded /\ (\E i \in DOMAIN log : IsCompletion(log[i]))
           => monitor = "Completed"

\* C2: a frame that carries the id of another job never makes the monitor
\* leave its waiting state, whatever its type.
C2_ForeignFrameKeepsWaiting ==
    [][ (monitor = "waiting" /\ log' # log /\ IsForeign(log'[Len(log')]))
            => monitor' = "waiting" ]_vars

\* C3: an execution_error frame of the awaited job that has been read is the
\* last frame read, the monitor is Faulted, the run is over and get_history
\* was not called; likewise a completion frame that has been read is the last
\* frame read and the monitor went on to the history query: the first
\* terminal-triggering frame read decides.
C3_FirstTerminalFrameDecides ==
    \A i \in DOMAIN log :
        /\ IsAwaitedError(log[i]) =>
              /\ i = Len(log)
              /\ monitor = "Faulted"
              /\ pc = "done"
              /\ historyCalls = 0
        /\ IsCompletion(log[i]) =>
              /\ i = Len(log)
              /\ monitor \in {"querying", "Completed", "QueryFailed"}

\* C3 witness: the monitor read another frame and then the awaited job's
\* execution_error, and is Faulted.
C3_Witness ==
    /\ Len(log) = 2
    /\ IsAwaitedError(log[2])
    /\ monitor = "Faulted"

\* C4: when the stream delivers neither the completion frame nor an
\* execution_error frame of the awaited job, be it silent or emitting other
\* frames (binary, text or JSON objects), and no read fails,
\* wait_for_completion ends as TimedOut (stated for the waits that have
\* ended).
C4_NoTerminalFrameEndsTimedOut ==
    (/\ MonitorEnded
     /\ monitor \notin {"ReadFailed", "FrameError"}
     /\ \A i \in DOMAIN log : ~IsCompletion(log[i]) /\ ~IsAwaitedError(log[i]))
        => monitor = "TimedOut"

\* C5: every way wait_for_completion ends is one of Completed, Faulted and
\* TimedOut, whatever the stream does.
C5_OnlyThreeEndings ==
    MonitorEnded => monitor \in {"Completed", "Faulted", "TimedOut"}

\* The node ids the binder assigns to in a run of the given variant.
BoundSlots(workflow_type) ==
    {"244", "541", "220", "540"}
        \cup (IF workflow_type = "flf2v" THEN {"617"} ELSE {})

\* C6: when a node id the binder assigns to is absent from the loaded
\* template, nothing is submitted and the run fails.
C6_MissingSlotFails ==
    (loaded /\ \E n \in BoundSlots(job_input.workflow) : n \notin DOMAIN template)
        => /\ posts = << >>
           /\ pc \in {"bind", "done"}
           /\ pc = "done" => result.status = "failed"

\* round(value / 16) * 16 with a floor of 16 (halves rounded up)
Snap(value) ==
    LET r == ((value + 8) \div 16) * 16 IN IF r < 16 THEN 16 ELSE r

\* C7: when the template has every slot of the variant, the submitted graph
\* holds the seed, guidance scale and step count the request gives on each
\* sampler node, the frame count and the snapped width and height it gives
\* on the encode node, and every other input as the template has it.
C7_SubmittedGraphHoldsRequest ==
    \A i \in DOMAIN posts :
        LET g == posts[i].prompt
            p == job_input.params
        IN  BoundSlots(job_input.workflow) \subseteq DOMAIN template =>
            /\ \A n \in {"220", "540"} \cap DOMAIN g :
                  /\ Given(p.seed) => g[n].inputs.seed = p.seed[1]
                  /\ Given(p.cfg) => g[n].inputs.cfg = p.cfg[1]
                  /\ Given(p.steps) => g[n].inputs.steps = p.steps[1]
            /\ "541" \in DOMAIN g =>
                  /\ Given(p.frames) => g["541"].inputs.num_frames = p.frames[1]
                  /\ Given(p.width) => g["541"].inputs.width = Snap(p.width[1])
                  /\ Given(p.height) => g["541"].inputs.height = Snap(p.height[1])
            /\ DOMAIN g = DOMAIN template
            /\ \A n \in DOMAIN g \ BindNodes : g[n] = template[n]
            /\ \A n \in DOMAIN g : g[n].class_type = template[n].class_type

\* C8: binding leaves the dict the template store handed out as it was.
C8_TemplateNotMutated ==
    loaded => workflow = template

\* C9 as stated: a flf2v request without end image ends with NO_END_IMAGE,
\* and nothing was POSTed, connected or queried.
C9_NoEndImageAlwaysReported ==
    (job_input.workflow = "flf2v" /\ job_input.end_image_base64 = "none")
        => /\ posts = << >> /\ wsUrls = << >> /\ historyCalls = 0
           /\ pc = "done" => result.error_code = "NO_END_IMAGE"

\* C9 amended: in a flf2v run without end image nothing is POSTed, connected
\* or queried; the run ends with NO_END_IMAGE when the engine was found ready
\* and the primary image was given and staged.
C9_NoEndImageBeforeNetwork ==
    (job_input.workflow = "flf2v" /\ job_input.end_image_base64 = "none")
        => /\ posts = << >> /\ wsUrls = << >> /\ historyCalls = 0
           /\ (/\ pc = "done"
               /\ result.error_code # "COMFY_NOT_READY"
               /\ job_input.image_base64 = "valid")
                  => result = Failed("NO_END_IMAGE")

\* C9 witness: a flf2v run without end image has ended with NO_END_IMAGE.
C9_Witness ==
    /\ pc = "done"
    /\ job_input.workflow = "flf2v"
    /\ job_input.end_image_base64 = "none"
    /\ result = Failed("NO_END_IMAGE")

\* C10: the client id POSTed is the one drawn in this run, the WebSocket URL
\* carries the same one, and no two runs of the process POST the same one.
C10_SessionId ==
    /\ \A i \in DOMAIN posts : client_id # 0 /\ posts[i].client_id = client_id
    /\ \A i \in DOMAIN wsUrls : Len(posts) = 1 /\ wsUrls[i] = posts[1].client_id
    /\ \A i, j \in DOMAIN sessions : i # j => sessions[i] # sessions[j]

\* C10 witness: a second run has POSTed its graph and connected its stream.
C10_Witness ==
    /\ Len(sessions) = 2
    /\ Len(posts) = 1
    /\ Len(wsUrls) = 1
    /\ wsState = "open"

\* The run is a generate run that has returned.
GenerateRunEnded == pc = "done" /\ comfy_status # "none"

\* C11: nothing is POSTed to /prompt in a run unless wait_for_comfyui
\* returned ready in that run, and a run whose wait returned not ready has
\* ended as failed with COMFY_NOT_READY without having staged a file, POSTed
\* a graph or opened a WebSocket.
C11_SubmitOnlyWhenReady ==
    /\ posts # << >> => comfy_status = "ready"
    /\ comfy_status = "not_ready" =>
          /\ pc = "done"
          /\ result.status = "failed"
          /\ result.error_code = "COMFY_NOT_READY"
          /\ staged = {}
          /\ posts = << >>
          /\ wsUrls = << >>

\* A second run, with a file of the first still staged, whose readiness
\* wait ran out.
C11_Witness ==
    /\ comfy_status = "not_ready"
    /\ clock > COMFY_READY_TIMEOUT
    /\ result.error_code = "COMFY_NOT_READY"
    /\ inputDir # {}

\* C12: whenever handler() has returned, what it returned is a dict with a
\* status of "completed" or "failed", and a failed one holds error_code and
\* error_message, both filled in.
C12_StructuredResult ==
    pc = "done" =>
        /\ result.status \in {"completed", "failed"}
        /\ "status" \in result.keys
        /\ result.status = "failed" =>
              /\ {"error_code", "error_message"} \subseteq result.keys
              /\ result.error_code # "none"
              /\ result.error_message.text # "none"

\* A failure dict has been returned: the one of a submission that got no
\* prompt id.
C12_Witness ==
    /\ pc = "done"
    /\ posts # << >>
    /\ result.status = "failed"
    /\ result.error_code = "QUEUE_FAILED"

\* The error_code the handler gives a run that read the execution_error
\* frame of its job.
EngineFaultKind == Caught(ExecutionError(NoFrame)).error_code

\* The failed run ended by a timeout, without an artifact, by a fault of the
\* template or its binding, or by a fault of the request's input.
OtherKindOfFailure ==
    \/ monitor = "TimedOut"
    \/ monitor = "Completed" /\ video_path = << >>
    \/ pc = "done" /\ loaded /\ posts = << >>
    \/ pc = "done" /\ comfy_status = "ready" /\ ~loaded

\* C13: a run that read the execution_error frame of its job has ended as
\* failed with the frame's data in its error_message, and no run that failed
\* by a timeout, without artifact, by its template or by its input has the
\* error_code of such a run.
C13_EngineFaultKindDistinct ==
    pc = "done" =>
        /\ monitor = "Faulted" =>
              /\ result.status = "failed"
              /\ result.error_message.payload = log[Len(log)]
        /\ (result.status = "failed" /\ OtherKindOfFailure)
              => result.error_code # EngineFaultKind

\* C14: a run whose wait_for_completion ran out of its budget has ended as
\* failed with TIMEOUT, the time that had elapsed in its error_message and
\* logs_tail among its keys.
C14_TimeoutCarriesElapsed ==
    (pc = "done" /\ monitor = "TimedOut") =>
        /\ result.status = "failed"
        /\ result.error_code = "TIMEOUT"
        /\ result.error_message.seconds = clock
        /\ "logs_tail" \in result.keys

\* C15: when a generate run has returned, none of the files it staged is
\* left in COMFY_INPUT_DIR.
C15_StagedFilesRemoved ==
    GenerateRunEnded => staged \cap inputDir = {}

\* The places of the entries of a history record: <<i, k, j>> is item j of
\* list k (1: "videos", 2: "gifs") of node i.
ListAt(outputs, i, k) == IF k = 1 THEN outputs[i].videos ELSE outputs[i].gifs

Places(outputs) ==
    UNION {{<<i, k, j>> : j \in 1..Len(ListAt(outputs, i, k))} :
              i \in 1..Len(outputs), k \in 1..2}

EntryAt(outputs, p) == ListAt(outputs, p[1], p[2])[p[3]]

\* Place p comes before place q: nodes in record order, in a node the
\* "videos" list before the "gifs" list, in a list the entries in order.
Earlier(p, q) ==
    \/ p[1] < q[1]
    \/ p[1] = q[1] /\ p[2] < q[2]
    \/ p[1] = q[1] /\ p[2] = q[2] /\ p[3] < q[3]

\* The names of the entries of the record.
EntryNames(outputs) == {EntryAt(outputs, p) : p \in Places(outputs)}

\* find_output_video has run in the state.
Resolved == pc = "done" /\ monitor = "Completed"

\* C16 as stated: when the record has several entries and some of them
\* exist on disk, find_output_video returns the first entry that exists on
\* disk.
C16_FirstExistingEntry ==
    (/\ Resolved
     /\ Cardinality(Places(history.outputs)) > 1
     /\ \E p \in Places(history.outputs) : EntryAt(history.outputs, p) \in outputDir)
    => \E p \in Places(history.outputs) :
          /\ EntryAt(history.outputs, p) \in outputDir
          /\ \A q \in Places(history.outputs) :
                Earlier(q, p) => EntryAt(history.outputs, q) \notin outputDir
          /\ video_path = <<EntryAt(history.outputs, p)>>

\* C16, amended: when some entry of the record exists on disk and its name
\* ends in .mp4 or .gif, find_output_video returns the first such entry;
\* entries that do not exist or have another ending are skipped.
C16_FirstExistingMp4OrGif ==
    (Resolved /\ \E p \in Places(history.outputs) :
                     /\ EntryAt(history.outputs, p) \in outputDir
                     /\ EndsWithMp4OrGif(EntryAt(history.outputs, p)))
    => \E p \in Places(history.outputs) :
          /\ EntryAt(history.outputs, p) \in outputDir
          /\ EndsWithMp4OrGif(EntryAt(history.outputs, p))
          /\ \A q \in Places(history.outputs) :
                Earlier(q, p) =>
                    \/ EntryAt(history.outputs, q) \notin outputDir
                    \/ ~EndsWithMp4OrGif(EntryAt(history.outputs, q))
          /\ video_path = <<EntryAt(history.outputs, p)>>

\* A record of two nodes whose first entry does not exist, whose second
\* exists with another ending, and whose third was returned.
C16_Witness ==
    /\ Resolved
    /\ Len(history.outputs) = 2
    /\ history.outputs[1].gifs = <<"a.mp4", "c.webm">>
    /\ history.outputs[2].videos = <<"b.gif">>
    /\ outputDir = {"b.gif", "c.webm", "other.mp4"}
    /\ video_path = <<"b.gif">>

\* C17: for a record of two output nodes, one with a single "gifs" entry
\* and one with a single "videos" entry, naming two files that both
\* exist, find_output_video returns the two entries in the order of their nodes.
C17_ReturnsBothEntries ==
    (/\ Resolved
     /\ Len(history.outputs) = 2
     /\ \E i, j \in 1..2 :
           /\ i # j
           /\ Len(history.outputs[i].gifs) = 1 /\ history.outputs[i].videos = << >>
           /\ Len(history.outputs[j].videos) = 1 /\ history.outputs[j].gifs = << >>
     /\ Cardinality(EntryNames(history.outputs)) = 2
     /\ \A f \in EntryNames(history.outputs) : f \in outputDir /\ EndsWithMp4OrGif(f))
    => video_path = VisitOrder(history.outputs)

\* The artifact of a completed run is an entry of its history record.
FromHistory == result.video \in EntryNames(history.outputs)

\* The result dict tells that its artifact is a low-confidence one.
MarkedLowConfidence ==
    result.keys \cap {"confidence", "low_confidence", "source", "fallback"} # {}

\* C18: the artifact of a completed run comes from the directory scan only
\* when no entry of the history record exists on disk, the result of such a
\* run is marked low-confidence, and the result of a run whose artifact is
\* an entry of the record is not.
C18_FallbackMarked ==
    (Resolved /\ result.status = "completed") =>
        /\ ~FromHistory => EntryNames(history.outputs) \cap outputDir = {}
        /\ ~FromHistory => MarkedLowConfidence
        /\ FromHistory => ~MarkedLowConfidence

\* C19: a run whose job completed while no entry of the history record
\* exists on disk and the output directory holds no .mp4 ends as failed with
\* NO_OUTPUT, which is not the error_code of an engine error; and a
\* completed generate run returns a file that exists.
C19_NoOutputWhenNothingResolved ==
    Resolved =>
        /\ (/\ EntryNames(history.outputs) \cap outputDir = {}
            /\ \A f \in outputDir : ~EndsWithMp4(f))
           => /\ result.status = "failed"
              /\ result.error_code = "NO_OUTPUT"
              /\ result.error_code # EngineFaultKind
        /\ result.status = "completed" => result.video \in outputDir

\* The record names a file that is not there, the directory holds another
\* job's .gif only, and the run ended with NO_OUTPUT.
C19_Witness ==
    /\ Resolved
    /\ EntryNames(history.outputs) = {"a.mp4"}
    /\ outputDir = {"b.gif"}
    /\ result.error_code = "NO_OUTPUT"

\* C20: wait_for_completion goes on to the history query, returns, or
\* raises the engine's execution error only while the time since its start
\* is within the execution budget.
C20_NoOutcomeAfterBudget ==
    monitor \in {"querying", "Completed", "Faulted"} => clock <= COMFY_EXEC_TIMEOUT

\* C21: get_history is called at most once in a run, only with the
\* completion frame of the awaited job as the last frame read, exactly once
\* in a run whose wait ended Completed, and not at all in a run whose wait
\* ended Faulted or TimedOut or that has not submitted.
C21_HistoryQueriedOnceAfterCompletion ==
    /\ historyCalls <= 1
    /\ historyCalls > 0 => (log # << >> /\ IsCompletion(log[Len(log)]))
    /\ monitor = "Completed" => historyCalls = 1
    /\ monitor \in {"Faulted", "TimedOut"} => historyCalls = 0
    /\ (posts = << >> \/ prompt_id = "none") => historyCalls = 0

\* A run read a frame of another job, then its own completion frame, and
\* returned the history it queried once.
C21_Witness ==
    /\ monitor = "Completed"
    /\ Len(log) = 2
    /\ IsForeign(log[1])
    /\ historyCalls = 1

\* C22: a run POSTs its graph at most once, and the dict it returned does
\* not change and nothing more is POSTed until the run is left.
C22_OneSubmissionOneOutcome ==
    [][ /\ Len(posts') <= 1
        /\ result # NoResult =>
              \/ result' = result /\ posts' = posts
              \/ result' = NoResult /\ posts' = << >> /\ pc' = "idle" ]_vars

\* A run that submitted and then failed in the monitor has returned.
C22_Witness ==
    /\ pc = "done"
    /\ Len(posts) = 1
    /\ monitor \in {"Faulted", "TimedOut"}
    /\ result.status = "failed"

C24_BinaryAndTextDiscarded ==
    [][ (log' # log /\ log' # << >> /\ log'[Len(log')].form \in {"binary", "text"})
        => /\ monitor' = "waiting"
           /\ pc' = "mon_check"
           /\ prompt_id' = prompt_id
           /\ result' = NoResult
           /\ clock' >= clock ]_vars

\* The monitor read a binary frame and a text frame and is still waiting.
C24_Witness ==
    /\ Len(log) = 2
    /\ log[1].form = "binary"
    /\ log[2].form = "text"
    /\ monitor = "waiting"
    /\ pc = "mon_check"

\* C25: a run whose job the engine finished after the POST was answered,
\* however soon, has not missed the job's terminal event: it does not end
\* TimedOut.
C25_NoEventMissed ==
    emittedEarly => monitor # "TimedOut"

\* C26: wait_for_completion raises TimeoutError only when more than the
\* budget has elapsed since its start, and, reads taking RECV_TIMEOUT at
\* most, it is never waiting or timing out later than RECV_TIMEOUT after
\* the budget.
C26_TimedOutWithinWindow ==
    /\ monitor = "TimedOut" => clock > COMFY_EXEC_TIMEOUT
    /\ monitor \in {"waiting", "TimedOut"}
          => clock <= COMFY_EXEC_TIMEOUT + RECV_TIMEOUT

\* The wait timed out at the very end of the window.
C26_Witness ==
    /\ monitor = "TimedOut"
    /\ clock = COMFY_EXEC_TIMEOUT + RECV_TIMEOUT
    /\ log # << >>

\* C27: when a generate run has returned after its wait ended Completed,
\* Faulted, TimedOut or with a failed history query, the WebSocket it
\* connected is closed.
C27_WebSocketClosedOnReturn ==
    (pc = "done" /\ monitor \in {"Completed", "Faulted", "TimedOut", "QueryFailed"})
    => wsState = "closed"

\* C28: a run that ended with NO_IMAGE or NO_END_IMAGE has written no file
\* into COMFY_INPUT_DIR.
C28_ValidationBeforeStaging ==
    (pc = "done" /\ result.error_code \in {"NO_IMAGE", "NO_END_IMAGE"})
    => staged = {}

==============================================================================
